---- MODULE Spec2Model ----
(***************************************************************************)
(* Orchestration of the annual-report parser (annual_report_parser/agent.py)*)
(*                                                                         *)
(*   root_agent = Sequential[ company_input_parser,                        *)
(*                  company_orchestrator_loop = Loop(max 50)[              *)
(*                    single_company_pipeline = Sequential[                *)
(*                      company_iterator,                                  *)
(*                      pdf_find_retry_loop = Loop(max 5)[                 *)
(*                        finder, validator, downloader, checker ],        *)
(*                      analyst, summarizer, storage ] ] ]                 *)
(*                                                                         *)
(* One control thread walks this tree; pc names the agent that runs next.  *)
(* The session state is the record `state`; a key that was never written   *)
(* holds the default its readers pass to state.get and has origin "none".  *)
(*                                                                         *)
(* The loop and sequence agents are the agent framework's.  A sequence     *)
(* runs its sub-agents in order and forwards every event.  A loop runs its *)
(* sub-agents in order, forwards every event, and exits when an event it   *)
(* forwards carries escalate - an event of a nested agent included, since  *)
(* nothing clears the flag on the way up.  Releases differ in when the     *)
(* loop exits: at once, abandoning the sub-agent that raised the event     *)
(* ("return"), or after that sub-agent has run to its end ("drain").       *)
(* The repository pins no release, so loopExit is chosen in Init.          *)
(***************************************************************************)
EXTENDS Integers, Sequences, FiniteSets, TLC

VARIABLES
    loopExit,       \* "return" | "drain": the framework's reaction to escalate
    request,        \* the company names the user's request stands for
    pc,             \* the agent that runs next, or "done" / "failed"
    state,          \* ctx.session.state
    origin,         \* ghost: per key, when its current value was written
    innerLooped,    \* times_looped of pdf_find_retry_loop
    outerLooped,    \* times_looped of company_orchestrator_loop
    outerExit,      \* should_exit of company_orchestrator_loop ("drain")
    passes,         \* ghost: finder runs since the last iterator run
    selections,     \* ghost: number of items the iterator has selected
    tracked,        \* ghost: number of completed track_processed_company calls
    allDone,        \* ghost: the iterator has taken its AllDone branch
    report,         \* ghost: per ended retry loop, <<name, outcome, passes>>
    last,           \* ghost: what the last step did (agent and branch)
    \* company_profiler/agent.py: market_identifier, parallel_research,
    \* data_summarizer, a2ui_generator
    ppc,            \* the profiler agent that runs next, or "done" / "failed"
    pstate,         \* the profiler's ctx.session.state
    finished,       \* the gatherers of parallel_research that have completed
    shardOut,       \* ghost: the text each gatherer's LLM will answer with
    \* a function of the repository applied to one input
    fnPc,           \* which function, "ready" to be applied or "applied"
    fnIn,           \* its input
    fnOut           \* its result

\* the variables of the annual-report orchestration
orchVars == <<loopExit, request, pc, state, origin, innerLooped, outerLooped,
              outerExit, passes, selections, tracked, allDone, report, last>>

\* the variables of the company profiler pipeline
profVars == <<ppc, pstate, finished, shardOut>>

\* the variables of a single function application
fnVars == <<fnPc, fnIn, fnOut>>

\* what an action of the annual-report orchestration never touches
otherVars == <<profVars, fnVars>>

vars == <<orchVars, profVars, fnVars>>

----------------------------------------------------------------------------
(* Bounds of the model *)

MaxCompanies == 2

Names == {"A", "B"}

(* Program constants *)

max_attempts == 5

RetryMaxIterations == 5

OrchestratorMaxIterations == 50

----------------------------------------------------------------------------
(* Texts.  A text is a sequence of tokens; "" is << >>. *)

ErrorToken == "ERROR: No PDF found"

PlainUrl == "https://a.com/files/report.pdf"

TrustedUrl == "https://investor.b.com/ar2024.pdf"

SecUrl == "https://www.sec.gov/b/10k.pdf"

\* a value of pdf_url_raw that is not a str
NonStringValue == <<"<not a str>">>

\* isinstance(finder_output, str)
IsStr(text) == text # NonStringValue

\* a sentence without "ERROR:" whose lower case has "no pdf"
NoPdfPhrase == "No PDF available"

\* mutant: the marker is looked for at the start of the text only
HasErrorMarker_AtStart(text) ==
    text # << >> /\ text[1] \in {ErrorToken, NoPdfPhrase}

\* "ERROR:" in finder_output or "no pdf" in finder_output.lower()
HasErrorMarker(text) ==
    \E i \in 1..Len(text) : text[i] \in {ErrorToken, NoPdfPhrase}

\* the three pdf_patterns match exactly the tokens that are PDF URLs
IsPdfUrl(tok) == tok \in {PlainUrl, TrustedUrl, SecUrl}

\* any(domain in url.lower() for domain in preferred_domains)
HasPreferredDomain(url) == url \in {TrustedUrl, SecUrl}

RECURSIVE FoundUrls(_)
\* found_urls: the PDF URLs of the text in order of occurrence, without repeats
FoundUrls(text) ==
    IF text = << >> THEN << >>
    ELSE LET front == FoundUrls(SubSeq(text, 1, Len(text) - 1))
             tok == text[Len(text)]
         IN  IF IsPdfUrl(tok) /\ ~(\E i \in 1..Len(front) : front[i] = tok)
             THEN Append(front, tok) ELSE front

\* best_url: found_urls[0], overwritten by every url that has a preferred
\* domain (the break leaves only the inner loop), so the last such url wins
BestUrl(found) ==
    LET pref == {i \in 1..Len(found) : HasPreferredDomain(found[i])}
    IN  IF pref = {} THEN found[1]
        ELSE found[CHOOSE i \in pref : \A j \in pref : j <= i]

\* what the finder LLM may leave in pdf_url_raw
FinderOutputs ==
    { <<ErrorToken>>, <<"nothing", "relevant">>, <<PlainUrl>>,
      <<PlainUrl, TrustedUrl>> }

NoUrlNote == <<"No PDF URL found in search results">>

\* a path with a drive letter that ends in .pdf
WinPath == "C:\\Temp\\financial_analyst_pdfs\\r.pdf"

\* what the downloader LLM may leave in download_result: whether the regex
\* finds a brace group holding "success" in it (has_json), whether json.loads
\* accepts that group (decodes) and the fields it then has, and the path with
\* a drive letter that the text names and that exists on disk (named_path,
\* "" when there is none)
NoDownload ==
    [has_json |-> FALSE, decodes |-> FALSE, success |-> FALSE, file_path |-> "",
     error |-> "", named_path |-> ""]

DownloadResults ==
    { NoDownload,
      [has_json |-> TRUE, decodes |-> TRUE, success |-> TRUE,
       file_path |-> "/tmp/r.pdf", error |-> "", named_path |-> ""],
      [has_json |-> TRUE, decodes |-> TRUE, success |-> TRUE,
       file_path |-> "", error |-> "", named_path |-> ""],
      [has_json |-> TRUE, decodes |-> TRUE, success |-> FALSE,
       file_path |-> "", error |-> "HTTP 404", named_path |-> ""],
      [has_json |-> TRUE, decodes |-> FALSE, success |-> FALSE,
       file_path |-> "", error |-> "", named_path |-> WinPath] }

\* the validator LLM's answer; no code reads it and it gates no later stage
ValidationResults == {"URL_INVALID: unreachable"}

AnalysisTexts == {"analysis", "ERROR: No PDF file available for analysis."}

\* three backquotes
Fence == "<fence>"

RECURSIVE LStrip(_, _)
\* the text without its leading tokens of the set chars
LStrip(text, chars) ==
    IF text = << >> \/ text[1] \notin chars THEN text
    ELSE LStrip(Tail(text), chars)

RECURSIVE RStrip(_, _)
\* the text without its trailing tokens of the set chars
RStrip(text, chars) ==
    IF text = << >> \/ text[Len(text)] \notin chars THEN text
    ELSE RStrip(SubSeq(text, 1, Len(text) - 1), chars)

\* text.strip()
Strip(text) == RStrip(LStrip(text, {" "}), {" "})

\* the text without its white space
NoSpace(text) == SelectSeq(text, LAMBDA tok : tok # " ")

\* one JSON object written without white space, the same object as
\* json.dumps(.., indent=2) writes it, and the JSON literal true
CompactObj == "{\"a\":1}"

PrettyObj == "{\n  \"a\": 1\n}"

TrueLiteral == "true"

\* tokens made of letters only
Letters == {"json", TrueLiteral}

\* what the summarizer LLM may leave in final_summary
SummaryTexts == {<<CompactObj>>, <<"not json">>}

StorageResults == {"stored"}

\* json.loads(text) raises JSONDecodeError: the text is not one JSON value
\* with white space around it
SummaryLoadsRaises(text) ==
    \/ Len(NoSpace(text)) # 1
    \/ NoSpace(text)[1] \notin {CompactObj, PrettyObj, TrueLiteral}

\* json.loads(text): the value, however the text spells it
SummaryLoads(text) ==
    IF NoSpace(text)[1] \in {CompactObj, PrettyObj} THEN "object a=1" ELSE "true"

\* json.dumps(parsed, indent=2)
DumpsIndented(parsed) ==
    IF parsed = "object a=1" THEN <<PrettyObj>> ELSE <<TrueLiteral>>

\* re.sub(r"^```[a-zA-Z]*\s*", "", clean_summary)
SubOpeningFence(text) ==
    IF text # << >> /\ text[1] = Fence
    THEN LStrip(LStrip(Tail(text), Letters), {" "})
    ELSE text

\* re.sub(r"\s*```$", "", clean_summary)
SubClosingFence(text) ==
    IF text # << >> /\ text[Len(text)] = Fence
    THEN RStrip(SubSeq(text, 1, Len(text) - 1), {" "})
    ELSE text

\* clean_summary when the fence is left where it is
CleanSummary_KeepFence(summary) == Strip(summary)

\* clean_summary
CleanSummary(summary) ==
    IF Strip(summary) # << >> /\ Strip(summary)[1] = Fence
    THEN SubClosingFence(SubOpeningFence(Strip(summary)))
    ELSE Strip(summary)

\* json.dumps(json.loads(clean_summary), indent=2), or the summary itself
\* when it does not parse
StructuredOutput(summary) ==
    IF SummaryLoadsRaises(CleanSummary(summary)) THEN summary
    ELSE DumpsIndented(SummaryLoads(CleanSummary(summary)))

----------------------------------------------------------------------------
(* Session keys *)

RunKeys == {"parsed_companies", "pipeline_error", "company_list",
            "current_company_index", "total_companies", "processed_companies"}

ItemScopedKeys ==
    {"pdf_find_attempt", "tried_urls", "pdf_url", "pdf_url_raw", "url_valid",
     "finder_error", "download_result", "download_error", "pdf_file_path",
     "pdf_file_size", "download_success", "raw_analysis", "financial_analysis",
     "final_summary", "structured_output", "storage_result"}

Keys == RunKeys \cup ItemScopedKeys \cup {"company_name", "url_validation_result"}

\* the keys CompanyIteratorAgent resets when it selects an item
IteratorResetKeys ==
    {"pdf_find_attempt", "tried_urls", "pdf_url", "pdf_file_path",
     "download_success", "raw_analysis", "financial_analysis", "final_summary"}

\* the state before anything is written: every key holds the default its
\* readers pass to state.get
EmptyState ==
    [ parsed_companies |-> << >>, pipeline_error |-> "", company_list |-> << >>,
      current_company_index |-> 0, total_companies |-> 0,
      processed_companies |-> << >>, company_name |-> "",
      pdf_find_attempt |-> 0, tried_urls |-> << >>, pdf_url |-> "",
      pdf_url_raw |-> << >>, url_valid |-> FALSE, url_validation_result |-> "",
      finder_error |-> << >>, download_result |-> NoDownload,
      download_error |-> "", pdf_file_path |-> "", pdf_file_size |-> 0,
      download_success |-> FALSE, raw_analysis |-> "", financial_analysis |-> "",
      final_summary |-> << >>, structured_output |-> << >>,
      storage_result |-> "" ]

\* ghost bookkeeping of writes: the keys of ks now hold a value of this item
Wrote(org, ks) == [k \in Keys |-> IF k \in ks THEN "cur" ELSE org[k]]

\* ghost bookkeeping at SelectNext: what was written so far is the past
Aged(org) == [k \in Keys |-> IF org[k] = "cur" THEN "prev" ELSE org[k]]

Present(k) == origin[k] # "none"

Contains(seq, x) == \E i \in 1..Len(seq) : seq[i] = x

\* the requests of the model: every list of at most MaxCompanies names
WorkLists == UNION {[1..n -> Names] : n \in 0..MaxCompanies}

\* a request longer than the orchestrator's cap
LongList == [i \in 1..(OrchestratorMaxIterations + 1) |-> "A"]

----------------------------------------------------------------------------
Start ==
    /\ loopExit \in {"return", "drain"}
    /\ pc = "parser"
    /\ state = EmptyState
    /\ origin = [k \in Keys |-> "none"]
    /\ innerLooped = 0
    /\ outerLooped = 0
    /\ outerExit = FALSE
    /\ passes = 0
    /\ selections = 0
    /\ tracked = 0
    /\ allDone = FALSE
    /\ report = << >>
    /\ last = "init"

\* the company profiler is not running
ProfIdle ==
    /\ ppc = "idle"
    /\ pstate = << >>
    /\ finished = {}
    /\ shardOut = << >>

\* no single function is being applied
FnIdle ==
    /\ fnPc = "idle"
    /\ fnIn = << >>
    /\ fnOut = << >>

\* the annual-report orchestration is not running
OrchIdle ==
    /\ loopExit = "return"
    /\ request = << >>
    /\ pc = "idle"
    /\ state = EmptyState
    /\ origin = [k \in Keys |-> "none"]
    /\ innerLooped = 0
    /\ outerLooped = 0
    /\ outerExit = FALSE
    /\ passes = 0
    /\ selections = 0
    /\ tracked = 0
    /\ allDone = FALSE
    /\ report = << >>
    /\ last = "init"

Init == request \in WorkLists /\ Start /\ ProfIdle /\ FnIdle

InitLong == request = LongList /\ Start /\ ProfIdle /\ FnIdle

----------------------------------------------------------------------------
(* Callbacks: each takes the state and the origins and returns both *)

\* mutant: without a company the work list is emptied as well
parse_company_list_ClearOnError(st, org, companies) ==
    IF companies = << >>
    THEN [st  |-> [st EXCEPT !.pipeline_error = "ERROR: No company names provided.",
                             !.company_list = << >>,
                             !.total_companies = 0],
          org |-> Wrote(org, {"pipeline_error", "company_list", "total_companies"})]
    ELSE [st  |-> [st EXCEPT !.company_list = companies,
                             !.current_company_index = 0,
                             !.total_companies = Len(companies),
                             !.processed_companies = << >>],
          org |-> Wrote(org, {"company_list", "current_company_index",
                              "total_companies", "processed_companies"})]

\* parse_company_list, given the list the parser LLM's text stands for
parse_company_list(st, org, companies) ==
    IF companies = << >>
    THEN [st  |-> [st EXCEPT !.pipeline_error = "ERROR: No company names provided."],
          org |-> Wrote(org, {"pipeline_error"})]
    ELSE [st  |-> [st EXCEPT !.company_list = companies,
                             !.current_company_index = 0,
                             !.total_companies = Len(companies),
                             !.processed_companies = << >>],
          org |-> Wrote(org, {"company_list", "current_company_index",
                              "total_companies", "processed_companies"})]

\* process_finder_output
process_finder_output(st, org) ==
    LET raw   == st.pdf_url_raw
        found == FoundUrls(raw)
        base  == [st EXCEPT !.pdf_url = "", !.url_valid = FALSE]
        wbase == Wrote(org, {"pdf_url", "url_valid"})
    IN  IF ~IsStr(raw)
        THEN [st |-> base, org |-> wbase]
        ELSE IF HasErrorMarker(raw)
        THEN [st  |-> [base EXCEPT !.finder_error = raw],
              org |-> Wrote(wbase, {"finder_error"})]
        ELSE IF found # << >>
        THEN [st  |-> [base EXCEPT !.pdf_url = BestUrl(found)],
              org |-> wbase]
        ELSE [st  |-> [base EXCEPT !.finder_error = NoUrlNote],
              org |-> Wrote(wbase, {"finder_error"})]

\* process_download_output
process_download_output(st, org) ==
    LET r     == st.download_result
        base  == [st EXCEPT !.pdf_file_path = "", !.download_success = FALSE]
        wbase == Wrote(org, {"pdf_file_path", "download_success"})
    IN  IF ~r.has_json
        THEN [st |-> base, org |-> wbase]
        ELSE IF ~r.decodes
        THEN \* except json.JSONDecodeError
             IF r.named_path # ""
             THEN [st  |-> [base EXCEPT !.pdf_file_path = r.named_path,
                                        !.download_success = TRUE],
                   org |-> wbase]
             ELSE [st |-> base, org |-> wbase]
        ELSE IF r.success /\ r.file_path # ""
        THEN [st  |-> [base EXCEPT !.pdf_file_path = r.file_path,
                                   !.pdf_file_size = 1,
                                   !.download_success = TRUE],
              org |-> Wrote(wbase, {"pdf_file_size"})]
        ELSE [st  |-> [base EXCEPT !.download_error =
                           IF r.error # "" THEN r.error ELSE "Unknown download error"],
              org |-> Wrote(wbase, {"download_error"})]

\* combine_analysis_results
combine_analysis_results(st, org) ==
    [st  |-> [st EXCEPT !.financial_analysis = st.raw_analysis],
     org |-> Wrote(org, {"financial_analysis"})]

\* format_final_output
format_final_output(st, org) ==
    [st  |-> [st EXCEPT !.structured_output = StructuredOutput(st.final_summary)],
     org |-> Wrote(org, {"structured_output"})]

\* mutant: the index is moved on by two
NextIndex_Skip(current_index) == current_index + 2

\* the index track_processed_company stores
NextIndex(current_index) == current_index + 1

\* mutant: the name is appended whether or not it is already there
ShouldAppend_Always(company_name, processed) == company_name # ""

\* whether track_processed_company appends the name
ShouldAppend(company_name, processed) ==
    company_name # "" /\ ~Contains(processed, company_name)

\* mutant: the index is incremented only when the name is appended
track_processed_company_IncInsideIf(st, org) ==
    LET add == ShouldAppend(st.company_name, st.processed_companies)
    IN  IF add
        THEN [st  |-> [st EXCEPT !.processed_companies = Append(@, st.company_name),
                                 !.current_company_index = NextIndex(@)],
              org |-> Wrote(org, {"current_company_index", "processed_companies"})]
        ELSE [st |-> st, org |-> org]

\* track_processed_company
track_processed_company(st, org) ==
    LET add == ShouldAppend(st.company_name, st.processed_companies)
        st1 == IF add
               THEN [st EXCEPT !.processed_companies = Append(@, st.company_name)]
               ELSE st
    IN  [st  |-> [st1 EXCEPT !.current_company_index = NextIndex(@)],
         org |-> Wrote(org, {"current_company_index"}
                            \cup (IF add THEN {"processed_companies"} ELSE {}))]

\* CompanyIteratorAgent: whether every item has been handled
AllProcessed(st) == st.current_company_index >= st.total_companies

\* mutant: the iterator always takes the head of the list
SelectAndReset_First(st) ==
    [st EXCEPT !.company_name = st.company_list[1],
               !.pdf_find_attempt = 0,
               !.tried_urls = << >>,
               !.pdf_url = "",
               !.pdf_file_path = "",
               !.download_success = FALSE,
               !.raw_analysis = "",
               !.financial_analysis = "",
               !.final_summary = << >>]

\* CompanyIteratorAgent, else branch: select the item and reset its keys
SelectAndReset(st) ==
    [st EXCEPT !.company_name = st.company_list[st.current_company_index + 1],
               !.pdf_find_attempt = 0,
               !.tried_urls = << >>,
               !.pdf_url = "",
               !.pdf_file_path = "",
               !.download_success = FALSE,
               !.raw_analysis = "",
               !.financial_analysis = "",
               !.final_summary = << >>]

\* mutant: the checker leaves the attempt number as it is
NextAttempt_Keep(attempt) == attempt

\* DownloadCheckerAgent, retry branch: the attempt number it stores
NextAttempt(attempt) == attempt + 1

\* mutant: the checker does not look at download_success
CheckerBranch_IgnoreSuccess(st) ==
    IF st.pdf_find_attempt >= max_attempts THEN "exhausted" ELSE "retry"

\* mutant: the checker gives up (and escalates) one attempt earlier
CheckerBranch_MaxMinusOne(st) ==
    IF st.download_success THEN "success"
    ELSE IF st.pdf_find_attempt >= max_attempts - 1 THEN "exhausted"
    ELSE "retry"

\* DownloadCheckerAgent: the branch taken
CheckerBranch(st) ==
    IF st.download_success THEN "success"
    ELSE IF st.pdf_find_attempt >= max_attempts THEN "exhausted"
    ELSE "retry"

\* the state keys an LLM agent's instruction template reads; the framework
\* raises when one of them is missing from the session state
InstructionKeys(agent) ==
    CASE agent = "finder"     -> {"company_name", "pdf_find_attempt", "tried_urls"}
      [] agent = "validator"  -> {"pdf_url"}
      [] agent = "downloader" -> {"pdf_url"}
      [] agent = "analyst"    -> {"company_name", "pdf_file_path"}
      [] agent = "summarizer" -> {"financial_analysis"}
      [] agent = "storage"    -> {"company_name", "structured_output",
                                  "financial_analysis"}
      [] OTHER                -> {}

CanRun(agent) == \A k \in InstructionKeys(agent) : Present(k)

----------------------------------------------------------------------------
(* The framework's loops *)

\* mutant: a loop whose next pass is started by the downloader's end
RetrySubAgentAfter_SkipChecker(agent) ==
    CASE agent = "finder"     -> "validator"
      [] agent = "validator"  -> "downloader"
      [] OTHER                -> "finder"

\* pdf_find_retry_loop runs its sub_agents one after the other, each to its
\* end, and after the last starts again with the first
RetrySubAgentAfter(agent) ==
    CASE agent = "finder"     -> "validator"
      [] agent = "validator"  -> "downloader"
      [] agent = "downloader" -> "checker"
      [] OTHER                -> "finder"

\* mutant: the pass limit compared with <= instead of <
RetryLoopContinues_OffByOne(times_looped) == times_looped <= RetryMaxIterations

\* LoopAgent(max_iterations=5): whether pdf_find_retry_loop starts another pass
RetryLoopContinues(times_looped) == times_looped < RetryMaxIterations

\* mutant: the orchestrator loop built without max_iterations
OrchestratorContinues_NoCap(times_looped) == times_looped >= 0

\* LoopAgent(max_iterations=50): whether company_orchestrator_loop starts
\* another pass
OrchestratorContinues(times_looped) == times_looped < OrchestratorMaxIterations

\* where control goes when single_company_pipeline has run to its end
AfterPipeline ==
    IF outerExit
    THEN pc' = "done" /\ outerLooped' = outerLooped
    ELSE /\ outerLooped' = outerLooped + 1
         /\ pc' = IF OrchestratorContinues(outerLooped + 1) THEN "iterator" ELSE "done"

\* an LLM agent whose instruction names a missing state key raises
Raise(agent) ==
    /\ pc' = "failed"
    /\ last' = "raised"
    /\ UNCHANGED <<otherVars, loopExit, request, state, origin, innerLooped, outerLooped, outerExit,
                   passes, selections, tracked, allDone, report>>

----------------------------------------------------------------------------
(* The agents *)

\* company_input_parser and its after-callback parse_company_list
Parser ==
    /\ pc = "parser"
    /\ LET companies == request
             st0 == [state EXCEPT !.parsed_companies = companies]
             r   == parse_company_list(st0, Wrote(origin, {"parsed_companies"}), companies)
         IN  state' = r.st /\ origin' = r.org
    /\ pc' = "iterator"
    /\ last' = "parser"
    /\ UNCHANGED <<otherVars, loopExit, request, innerLooped, outerLooped, outerExit, passes,
                   selections, tracked, allDone, report>>

\* CompanyIteratorAgent._run_async_impl
Iterator ==
    /\ pc = "iterator"
    /\ IF AllProcessed(state)
       THEN /\ allDone' = TRUE
            /\ last' = "alldone"
            /\ IF loopExit = "return"
               THEN pc' = "done" /\ outerExit' = outerExit
               ELSE pc' = "finder" /\ outerExit' = TRUE
            /\ UNCHANGED <<state, origin, selections>>
       ELSE /\ state' = SelectAndReset(state)
            /\ origin' = Wrote(Aged(origin), IteratorResetKeys \cup {"company_name"})
            /\ selections' = selections + 1
            /\ last' = "select"
            /\ pc' = "finder"
            /\ UNCHANGED <<allDone, outerExit>>
    /\ innerLooped' = 0
    /\ passes' = 0
    /\ UNCHANGED <<otherVars, loopExit, request, outerLooped, tracked, report>>

\* alternative_finder_agent and its after-callback process_finder_output
Finder ==
    /\ pc = "finder"
    /\ IF ~CanRun("finder") THEN Raise("finder")
       ELSE /\ \E raw \in FinderOutputs :
                 LET r == process_finder_output([state EXCEPT !.pdf_url_raw = raw],
                                                Wrote(origin, {"pdf_url_raw"}))
                 IN  state' = r.st /\ origin' = r.org
            /\ passes' = passes + 1
            /\ pc' = RetrySubAgentAfter("finder")
            /\ last' = "finder"
            /\ UNCHANGED <<otherVars, loopExit, request, innerLooped, outerLooped, outerExit,
                           selections, tracked, allDone, report>>

\* url_validator_agent (no callback)
Validator ==
    /\ pc = "validator"
    /\ IF ~CanRun("validator") THEN Raise("validator")
       ELSE /\ \E v \in ValidationResults :
                 state' = [state EXCEPT !.url_validation_result = v]
            /\ origin' = Wrote(origin, {"url_validation_result"})
            /\ pc' = RetrySubAgentAfter("validator")
            /\ last' = "validator"
            /\ UNCHANGED <<otherVars, loopExit, request, innerLooped, outerLooped, outerExit, passes,
                           selections, tracked, allDone, report>>

\* downloader_agent and its after-callback process_download_output
Downloader ==
    /\ pc = "downloader"
    /\ IF ~CanRun("downloader") THEN Raise("downloader")
       ELSE /\ \E d \in DownloadResults :
                 LET r == process_download_output([state EXCEPT !.download_result = d],
                                                  Wrote(origin, {"download_result"}))
                 IN  state' = r.st /\ origin' = r.org
            /\ pc' = RetrySubAgentAfter("downloader")
            /\ last' = "downloader"
            /\ UNCHANGED <<otherVars, loopExit, request, innerLooped, outerLooped, outerExit, passes,
                           selections, tracked, allDone, report>>

\* DownloadCheckerAgent._run_async_impl inside pdf_find_retry_loop
Checker ==
    /\ pc = "checker"
    /\ LET branch == CheckerBranch(state)
           entry(outcome) == [name |-> state.company_name, outcome |-> outcome,
                              passes |-> passes]
       IN  IF branch \in {"success", "exhausted"}
           THEN \* escalate: the retry loop exits, and so does every loop above
                /\ last' = IF branch = "success" THEN "check_success"
                           ELSE "check_exhausted"
                /\ report' = Append(report, entry(IF branch = "success"
                                                  THEN "succeeded" ELSE "exhausted"))
                /\ IF loopExit = "return"
                   THEN pc' = "done" /\ outerExit' = outerExit
                   ELSE pc' = "analyst" /\ outerExit' = TRUE
                /\ UNCHANGED <<state, origin, innerLooped>>
           ELSE /\ state' = [state EXCEPT !.pdf_find_attempt = NextAttempt(@)]
                /\ origin' = Wrote(origin, {"pdf_find_attempt"})
                /\ innerLooped' = innerLooped + 1
                /\ last' = "check_retry"
                /\ IF RetryLoopContinues(innerLooped + 1)
                   THEN pc' = RetrySubAgentAfter("checker") /\ report' = report
                   ELSE pc' = "analyst" /\ report' = Append(report, entry("exhausted"))
                /\ outerExit' = outerExit
    /\ UNCHANGED <<otherVars, loopExit, request, outerLooped, passes, selections, tracked, allDone>>

\* analyst_agent and its after-callback combine_analysis_results
Analyst ==
    /\ pc = "analyst"
    /\ IF ~CanRun("analyst") THEN Raise("analyst")
       ELSE /\ \E a \in AnalysisTexts :
                 LET r == combine_analysis_results([state EXCEPT !.raw_analysis = a],
                                                   Wrote(origin, {"raw_analysis"}))
                 IN  state' = r.st /\ origin' = r.org
            /\ pc' = "summarizer"
            /\ last' = "analyst"
            /\ UNCHANGED <<otherVars, loopExit, request, innerLooped, outerLooped, outerExit, passes,
                           selections, tracked, allDone, report>>

\* summarizer_agent and its after-callback format_final_output
Summarizer ==
    /\ pc = "summarizer"
    /\ IF ~CanRun("summarizer") THEN Raise("summarizer")
       ELSE /\ \E t \in SummaryTexts :
                 LET r == format_final_output([state EXCEPT !.final_summary = t],
                                              Wrote(origin, {"final_summary"}))
                 IN  state' = r.st /\ origin' = r.org
            /\ pc' = "storage"
            /\ last' = "summarizer"
            /\ UNCHANGED <<otherVars, loopExit, request, innerLooped, outerLooped, outerExit, passes,
                           selections, tracked, allDone, report>>

\* storage_agent and its after-callback track_processed_company; it is the
\* last agent of single_company_pipeline
Storage ==
    /\ pc = "storage"
    /\ IF ~CanRun("storage") THEN Raise("storage")
       ELSE /\ \E t \in StorageResults :
                 LET r == track_processed_company([state EXCEPT !.storage_result = t],
                                                  Wrote(origin, {"storage_result"}))
                 IN  state' = r.st /\ origin' = r.org
            /\ tracked' = tracked + 1
            /\ last' = "track"
            /\ AfterPipeline
            /\ UNCHANGED <<otherVars, loopExit, request, innerLooped, outerExit, passes, selections,
                           allDone, report>>

Next ==
    \/ Parser
    \/ Iterator
    \/ Finder
    \/ Validator
    \/ Downloader
    \/ Checker
    \/ Analyst
    \/ Summarizer
    \/ Storage

Spec == Init /\ [][Next]_vars

\* the same program on the request that is longer than the cap
SpecLong == InitLong /\ [][Next]_vars

----------------------------------------------------------------------------
(* Properties *)

RetryStages == {"finder", "validator", "downloader", "checker"}

TailStages == {"analyst", "summarizer", "storage"}

\* the retry loop of a selected item has ended without a successful download
EndedExhausted ==
    ~allDone /\ pc \in TailStages /\ ~state.download_success

C2_SuccessExits ==
    [][ /\ (pc = "checker" /\ state.download_success) =>
              /\ last' = "check_success"
              /\ pc' \in {"analyst", "done"}
        /\ (state.download_success /\ pc \in {"checker"} \cup TailStages) =>
              /\ pc' \notin RetryStages
              /\ state'.pdf_find_attempt = state.pdf_find_attempt
              /\ passes' = passes ]_vars

C2_Witness == last = "check_success" /\ passes = 2 /\ state.pdf_find_attempt = 1

\* C3 (as claimed): a failed check with pdf_find_attempt >= max_attempts - 1
\* escalates without incrementing; every other failed check increments the
\* counter and does not escalate.
C3_ExhaustedAtMaxMinusOne ==
    [][ (pc = "checker" /\ ~state.download_success) =>
          IF state.pdf_find_attempt >= max_attempts - 1
          THEN /\ last' = "check_exhausted"
               /\ state'.pdf_find_attempt = state.pdf_find_attempt
          ELSE /\ last' = "check_retry"
               /\ state'.pdf_find_attempt = state.pdf_find_attempt + 1 ]_vars

\* C4: an exhausted retry loop hands control to the analyst, the rest of the
\* pipeline runs in order, the storage step records the item as processed, and
\* control returns to the iterator (as long as the orchestrator's own cap
\* allows another pass), which selects the next item or finds all done.
C4_ExhaustionDoesNotAbort ==
    [][ /\ (pc = "checker" /\ ~allDone /\ ~state.download_success
              /\ pc' # "finder") => (pc' = "analyst" /\ ~outerExit')
        /\ (EndedExhausted /\ pc = "analyst") => pc' = "summarizer"
        /\ (EndedExhausted /\ pc = "summarizer") => pc' = "storage"
        /\ (EndedExhausted /\ pc = "storage") =>
              /\ Contains(state'.processed_companies, state.company_name)
              /\ tracked' = tracked + 1
              /\ OrchestratorContinues(outerLooped + 1) => pc' = "iterator"
        /\ (pc = "iterator" /\ report # << >>
              /\ report[Len(report)].outcome = "exhausted") =>
              \/ last' = "select" /\ state'.company_name =
                                       state.company_list[state.current_company_index + 1]
              \/ last' = "alldone" /\ tracked = Len(state.company_list) ]_vars

C4_Witness ==
    /\ selections = 2
    /\ last = "select"
    /\ report = <<[name |-> "A", outcome |-> "exhausted", passes |-> 5]>>
    /\ state.processed_companies = <<"A">>
    /\ state.company_name = "B"

\* C5 (as claimed): for the work list [A, B] where A's download succeeds on
\* its 2nd attempt and B's never succeeds, the finished run reports A
\* succeeded after 2 attempts, B exhausted after 5, and processed [A, B].
C5_ScenarioAB ==
    (/\ pc = "done"
     /\ request = <<"A", "B">>
     /\ report # << >>
     /\ report[1] = [name |-> "A", outcome |-> "succeeded", passes |-> 2]
     /\ \A i \in 1..Len(report) :
           report[i].name = "B" => report[i].outcome # "succeeded")
    => /\ report = <<[name |-> "A", outcome |-> "succeeded", passes |-> 2],
                     [name |-> "B", outcome |-> "exhausted", passes |-> 5]>>
       /\ state.processed_companies = <<"A", "B">>

\* C6: current_company_index is 0 after the parse, every completed storage
\* step (track) adds exactly 1 to it, after a success as after an exhaustion,
\* and no other step changes it.
C6_IndexStepsByOne ==
    [][ /\ pc = "parser" => state'.current_company_index = 0
        /\ tracked' # tracked =>
              state'.current_company_index = state.current_company_index + 1
        /\ tracked' = tracked =>
              state'.current_company_index = state.current_company_index ]_vars

C6_Witness ==
    /\ last = "track"
    /\ Len(report) = 2
    /\ report[1].outcome = "exhausted"
    /\ report[2].outcome = "succeeded"
    /\ state.current_company_index = 2

\* C7 (as claimed): the AllDone step changes no state key and selects no
\* item, and after it no per-item stage runs and neither
\* current_company_index nor processed_companies changes.
C7_AllDoneTerminal ==
    [][ /\ (pc = "iterator" /\ AllProcessed(state)) =>
              (state' = state /\ selections' = selections /\ allDone')
        /\ allDone =>
              /\ pc' \notin RetryStages \cup TailStages
              /\ state'.current_company_index = state.current_company_index
              /\ state'.processed_companies = state.processed_companies ]_vars

\* C8 (as claimed): right after the iterator has selected a further item, no
\* item-scoped key holds a value written while an earlier item was processed.
C8_NoLeakAfterReset ==
    (last = "select" /\ selections >= 2) =>
        \A k \in ItemScopedKeys : origin[k] # "prev"

\* C9: the k-th selection takes company_list[k]: when the iterator selects,
\* the index equals the number of earlier selections, every earlier pipeline
\* has completed its storage step, and the name chosen is the list's entry at
\* that position; between selections exactly one pipeline is in progress.
C9_WorkListOrder ==
    [][ /\ selections' # selections =>
              /\ selections' = selections + 1
              /\ pc = "iterator"
              /\ state.current_company_index = selections
              /\ tracked = selections
              /\ selections < Len(state.company_list)
              /\ state'.company_name = state.company_list[selections + 1]
        /\ (tracked' # tracked /\ ~allDone) =>
              /\ tracked' = selections
              /\ state.company_name = state.company_list[tracked'] ]_vars

C9_Witness ==
    /\ request = <<"B", "A">>
    /\ selections = 2
    /\ tracked = 2
    /\ state.company_name = "A"
    /\ state.processed_companies = <<"B", "A">>

\* the number of times single_company_pipeline has been started
PipelineRuns == selections + (IF allDone THEN 1 ELSE 0)

\* a measure of the work left: whole orchestrator passes, then the steps left
\* in the current pass
StepsLeft ==
    LET passLen == 4 * RetryMaxIterations + 4
        inPass  ==
            CASE pc = "iterator"   -> passLen
              [] pc \in RetryStages ->
                    4 * (RetryMaxIterations - innerLooped - 1) + 3
                      + (CASE pc = "finder" -> 4 [] pc = "validator" -> 3
                           [] pc = "downloader" -> 2 [] OTHER -> 1)
              [] pc = "analyst"    -> 3
              [] pc = "summarizer" -> 2
              [] pc = "storage"    -> 1
              [] OTHER             -> 0
    IN  CASE pc \in {"done", "failed"} -> 0
          [] pc = "parser" -> (passLen + 1) * OrchestratorMaxIterations + 1
          [] OTHER -> (passLen + 1) * (OrchestratorMaxIterations - outerLooped - 1)
                        + inPass

\* C10: the run always ends: a natural-number measure of the work left is
\* strictly lowered by every step, a step is possible until the run is over,
\* and single_company_pipeline is never started more than 50 times, also for
\* a work list longer than 50.
C10_OuterLoopTerminates ==
    /\ [](StepsLeft >= 0 /\ PipelineRuns <= 50)
    /\ [](pc \notin {"done", "failed"} => ENABLED Next)
    /\ [][StepsLeft' < StepsLeft]_vars

C10_Witness ==
    /\ pc = "done"
    /\ Len(request) = 51
    /\ PipelineRuns = 50
    /\ tracked = 50
    /\ ~allDone


\* C17: after process_finder_output either pdf_url is a non-empty value and
\* no error note of this or an earlier pass is present, or pdf_url is empty
\* and a finder_error note is recorded.
\* Refuted: the note of an earlier pass stays in finder_error when a later
\* pass finds a URL.
C17_ValueOrErrorNote ==
    last = "finder" =>
        \/ state.pdf_url # "" /\ state.finder_error = << >>
        \/ state.pdf_url = "" /\ state.finder_error # << >>

\* C20: when parsing yields no company the run records pipeline_error and
\* does not proceed to iteration: the iterator selects no item and control
\* never reaches a per-item stage.
\* Refuted: where the loop lets the escalating sub-agent finish, the
\* sequence goes on from the iterator to the finder.
C20_EmptyListRunsNoStage ==
    request = << >> =>
        /\ pc \in {"parser", "iterator", "done"}
        /\ selections = 0
        /\ pc # "parser" => state.pipeline_error # ""

----------------------------------------------------------------------------
(* extract_a2ui_messages: company_profiler/agent.py and a2a_server.py

   The text is a sequence of tokens: the delimiter, white space, the two
   braces, a complete member ("kv"), a key that awaits an object ("k:"),
   a code fence, and any other text ("x").  A JSON object is
   { }, { kv } or { k: object }, with white space anywhere between. *)

\* the longest text given to extract_a2ui_messages
MaxTextLen == 6

\* the longest text given to it between two code fences
MaxFencedLen == 3

Delim == "---a2ui_JSON---"

A2uiTokens == {Delim, " ", "{", "}", "kv", "k:", "x"}

\* the texts of at most n tokens
TextsUpTo(n) == UNION {[1..k -> A2uiTokens] : k \in 0..n}

\* what the generator's LLM may answer: a text, or a text in a code fence
A2uiTexts ==
    TextsUpTo(MaxTextLen)
        \cup {<<Fence, " ">> \o t \o <<" ", Fence>> : t \in TextsUpTo(MaxFencedLen)}

RECURSIVE Split(_)
\* text.split("---a2ui_JSON---")
Split(text) ==
    IF \A i \in 1..Len(text) : text[i] # Delim THEN <<text>>
    ELSE LET i == CHOOSE i \in 1..Len(text) :
                      text[i] = Delim /\ \A j \in 1..(i - 1) : text[j] # Delim
         IN  <<SubSeq(text, 1, i - 1)>> \o Split(SubSeq(text, i + 1, Len(text)))

\* mutant: the characters stripped on the left include the opening brace
StripFences_Braces(text) ==
    Strip(RStrip(LStrip(Strip(text), {Fence, "{"}), {Fence}))

\* part.strip().lstrip(fence + "json").rstrip(fence).strip()
StripFences(text) == Strip(RStrip(LStrip(Strip(text), {Fence}), {Fence}))

\* re.search(r'\{[\s\S]*\}', part): there is a "{" with a "}" after it
HasMatch(part) ==
    \E a, b \in 1..Len(part) : a < b /\ part[a] = "{" /\ part[b] = "}"

\* json_match.group(): the match starts at the first "{" and, [\s\S]* being
\* greedy, ends at the last "}"
MatchGroup(part) ==
    LET a == CHOOSE a \in 1..Len(part) :
                 part[a] = "{" /\ \A j \in 1..(a - 1) : part[j] # "{"
        b == CHOOSE b \in 1..Len(part) :
                 part[b] = "}" /\ \A j \in (b + 1)..Len(part) : part[j] # "}"
    IN  SubSeq(part, a, b)

RECURSIVE IsObjectText(_)
\* json.loads accepts the text (given without white space) as an object
IsObjectText(c) ==
    /\ Len(c) >= 2
    /\ c[1] = "{"
    /\ c[Len(c)] = "}"
    /\ LET inner == SubSeq(c, 2, Len(c) - 1)
       IN  \/ inner = << >>
           \/ inner = <<"kv">>
           \/ Len(inner) >= 3 /\ inner[1] = "k:" /\ IsObjectText(Tail(inner))

\* json.loads(json_str) raises JSONDecodeError
LoadsRaises(json_str) == ~IsObjectText(NoSpace(json_str))

\* json.loads(json_str): the object, which has no white space of the text
Loads(json_str) == NoSpace(json_str)

\* the body of the loop on a part that was stripped: what it appends
Appended(part) ==
    IF part = << >> THEN << >>
    ELSE IF ~HasMatch(part) THEN << >>
    ELSE IF LoadsRaises(MatchGroup(part)) THEN << >>
    ELSE <<Loads(MatchGroup(part))>>

RECURSIVE Collected_ReturnOnError(_, _)
\* the loop again, leaving at the first part that does not decode instead
\* of going on to the next part
Collected_ReturnOnError(parts, n) ==
    IF n = 0 THEN << >>
    ELSE IF \E k \in 1..(n - 1) :
               /\ HasMatch(Strip(parts[k]))
               /\ LoadsRaises(MatchGroup(Strip(parts[k])))
    THEN Collected_ReturnOnError(parts, n - 1)
    ELSE Collected_ReturnOnError(parts, n - 1) \o Appended(Strip(parts[n]))

RECURSIVE Collected(_, _)
\* messages after the loop of agent.py has visited the first n parts
Collected(parts, n) ==
    IF n = 0 THEN << >>
    ELSE Collected(parts, n - 1) \o Appended(Strip(parts[n]))

\* extract_a2ui_messages of company_profiler/agent.py
extract_a2ui_messages(text) == Collected(Split(text), Len(Split(text)))

RECURSIVE CollectedServer(_, _)
\* messages after the loop of a2a_server.py has visited the first n parts
CollectedServer(parts, n) ==
    IF n = 0 THEN << >>
    ELSE CollectedServer(parts, n - 1) \o
            (IF Strip(parts[n]) = << >> THEN << >>
             ELSE Appended(StripFences(parts[n])))

\* extract_a2ui_messages of company_profiler/a2a_server.py
server_extract_a2ui_messages(text) ==
    CollectedServer(Split(text), Len(Split(text)))

ApplyExtract ==
    /\ fnPc = "extract_a2ui_messages"
    /\ fnOut' = [agent  |-> extract_a2ui_messages(fnIn),
                 server |-> server_extract_a2ui_messages(fnIn)]
    /\ fnPc' = "extracted"
    /\ UNCHANGED <<orchVars, profVars, fnIn>>

\* C38: the extract_a2ui_messages of the agent callback and that of the A2A
\* server, which strips code-fence characters first, return the same list
\* of messages for every text.
C38_BothExtractorsAgree ==
    fnPc = "extracted" => fnOut.agent = fnOut.server

\* C38 (witness): a fenced text with a delimiter and a message, from which
\* both return the one message
C38_Witness ==
    /\ fnPc = "extracted"
    /\ fnIn = <<Fence, " ", Delim, "{", "}", " ", Fence>>
    /\ fnOut.agent = <<<<"{", "}">>>>
    /\ fnOut.server = <<<<"{", "}">>>>

\* the segments of the text that hold more than white space, counted at
\* their first position
NonEmptySegments(text) ==
    Cardinality({ i \in 1..(Len(text) + 1) :
        /\ i = 1 \/ text[i - 1] = Delim
        /\ \E j \in i..Len(text) :
              /\ text[j] \notin {Delim, " "}
              /\ \A k \in i..j : text[k] # Delim })

\* C15: extract_a2ui_messages returns, in segment order, the decoded objects
\* of the non-empty segments that decode: the result of a text is the result
\* of what is before a delimiter followed by the result of what is after it
\* (a malformed segment does not drop, reorder or alter its siblings), every
\* message is a decoded object, and there are at most as many messages as
\* non-empty segments.
C15_SegmentsDecodeIndependently ==
    fnPc = "extracted" =>
        /\ \A i \in 1..Len(fnIn) : fnIn[i] = Delim =>
              /\ fnOut.agent =
                    extract_a2ui_messages(SubSeq(fnIn, 1, i - 1))
                        \o extract_a2ui_messages(SubSeq(fnIn, i + 1, Len(fnIn)))
              /\ fnOut.server =
                    server_extract_a2ui_messages(SubSeq(fnIn, 1, i - 1))
                        \o server_extract_a2ui_messages(SubSeq(fnIn, i + 1, Len(fnIn)))
        /\ \A k \in 1..Len(fnOut.agent) : IsObjectText(fnOut.agent[k])
        /\ \A k \in 1..Len(fnOut.server) : IsObjectText(fnOut.server[k])
        /\ Len(fnOut.agent) <= NonEmptySegments(fnIn)
        /\ Len(fnOut.server) <= NonEmptySegments(fnIn)

\* C15 witness: one bad segment followed by one good segment yields exactly
\* the good segment's object
C15_Witness ==
    /\ fnPc = "extracted"
    /\ fnIn = <<"{", "x", "}", Delim, "{", "}">>
    /\ fnOut.agent = << <<"{", "}">> >>
    /\ fnOut.server = << <<"{", "}">> >>

\* the braces of text[a..b] that are open at b
Depth(text, a, b) ==
    Cardinality({j \in a..b : text[j] = "{"})
        - Cardinality({j \in a..b : text[j] = "}"})

\* the first "{" of the text has a matching "}"
HasBalanced(text) ==
    \E a, b \in 1..Len(text) :
        /\ text[a] = "{" /\ \A j \in 1..(a - 1) : text[j] # "{"
        /\ a < b /\ Depth(text, a, b) = 0

\* the text from its first "{" to the "}" that matches it
Balanced(text) ==
    LET a == CHOOSE a \in 1..Len(text) :
                 text[a] = "{" /\ \A j \in 1..(a - 1) : text[j] # "{"
        b == CHOOSE b \in (a + 1)..Len(text) :
                 Depth(text, a, b) = 0
                     /\ \A j \in (a + 1)..(b - 1) : Depth(text, a, j) # 0
    IN  SubSeq(text, a, b)

\* C16: within a segment the parser decodes the first balanced {...}
\* substring, so a well-formed object followed by trailing text stays a
\* decoded message even when the trailing text holds a further "}".
\* Refuted: the pattern is greedy and runs to the last "}" of the segment.
C16_FirstBalancedObject ==
    ( /\ fnPc = "extracted"
      /\ \A i \in 1..Len(fnIn) : fnIn[i] # Delim
      /\ HasBalanced(fnIn)
      /\ IsObjectText(NoSpace(Balanced(fnIn))) )
        => /\ fnOut.agent = <<NoSpace(Balanced(fnIn))>>
           /\ fnOut.server = <<NoSpace(Balanced(fnIn))>>

----------------------------------------------------------------------------
(* The company profiler: company_profiler/agent.py

   company_profiler = SequentialAgent [ market_identifier, parallel_research,
   data_summarizer, a2ui_generator ].  parallel_research is a ParallelAgent
   over company_gatherer_0 .. company_gatherer_4; the framework runs them
   concurrently, so they complete in any order, and the next agent starts
   when all five have completed.  An agent writes its answer under its
   output_key only when the answer has a text part.

   A JSON text is a record: its kind ("list", "nonlist", "invalid", "error",
   "empty", or "missing" for an absent key) and, for a list, its items.  A
   company of the list is the number of its position; an entry a gatherer
   reports is the position of the company it describes. *)

\* the longest list the market identifier's LLM answers with
MaxListed == 16

\* parsed[:15]
ListLimit == 15

\* range(5): company_gatherer_0 .. company_gatherer_4
Workers == 5

WorkerIds == 0..(Workers - 1)

JsonList(items) == [kind |-> "list", items |-> items]

NotJson == [kind |-> "invalid", items |-> << >>]

JsonScalar == [kind |-> "nonlist", items |-> << >>]

\* a text that starts with "ERROR:" or contains "No companies found"
ErrorText == [kind |-> "error", items |-> << >>]

EmptyText == [kind |-> "empty", items |-> << >>]

\* the key is not in the state
Missing == [kind |-> "missing", items |-> << >>]

\* json.loads raises JSONDecodeError on these
RaisesDecodeError(text) == text.kind \in {"invalid", "error", "empty"}

\* isinstance(json.loads(text), list)
ParsesToList(text) == text.kind = "list"

\* what the market identifier's LLM may answer
MarketOutputs ==
    {ErrorText, NotJson, JsonScalar, EmptyText, Missing}
        \cup {JsonList([k \in 1..n |-> k - 1]) : n \in 0..MaxListed}

\* what a gatherer's LLM may do: report the companies of its range that the
\* list has, answer with a text that is not JSON, or answer without a text
WorkerBehaviours == {"own", "invalid", "missing"}

ProfilerEmpty ==
    [ company_list |-> Missing, pipeline_error |-> "",
      shard |-> [i \in WorkerIds |-> Missing], company_data |-> Missing,
      a2ui_output |-> << >>, a2ui_messages |-> << >>,
      a2ui_output_parsed |-> << >> ]

\* what the generator's LLM may answer in the pipeline: two messages, a
\* message after a segment that does not decode, and no message at all
GeneratorOutputs ==
    { <<"{", "kv", "}", Delim, "{", "}">>,
      <<"{", "x", "}", Delim, "{", "kv", "}">>,
      <<"x">> }

ProfilerStart ==
    /\ ppc = "market_identifier"
    /\ pstate = ProfilerEmpty
    /\ finished = {}
    /\ shardOut \in [WorkerIds -> WorkerBehaviours]

InitProfiler == OrchIdle /\ FnIdle /\ ProfilerStart

\* mutant: the list is stored whole, however long it is
validate_market_identifier_output_NoLimit(st) ==
    IF st.company_list.kind = "list" /\ st.company_list.items # << >>
    THEN st
    ELSE IF st.company_list.kind \in {"missing", "empty"}
    THEN [st EXCEPT !.company_list = JsonList(<< >>),
                    !.pipeline_error = IF st.company_list.kind = "empty"
                        THEN "ERROR: Market Identifier output is not valid JSON."
                        ELSE ""]
    ELSE [st EXCEPT !.pipeline_error = "ERROR"]

\* validate_market_identifier_output
validate_market_identifier_output(st) ==
    LET company_list == st.company_list
        checked ==
            IF company_list.kind = "missing" THEN st
            ELSE IF company_list.kind = "error"
            THEN [st EXCEPT !.pipeline_error = "market identifier's error text"]
            ELSE IF RaisesDecodeError(company_list)
            THEN [st EXCEPT !.pipeline_error =
                      "ERROR: Market Identifier output is not valid JSON."]
            ELSE IF ~ParsesToList(company_list) \/ company_list.items = << >>
            THEN [st EXCEPT !.pipeline_error =
                      "ERROR: Market Identifier returned invalid company list format."]
            ELSE [st EXCEPT !.company_list =
                      JsonList(SubSeq(company_list.items, 1,
                          IF Len(company_list.items) < ListLimit
                          THEN Len(company_list.items) ELSE ListLimit))]
    IN  IF checked.company_list.kind \in {"missing", "empty"}
        THEN [checked EXCEPT !.company_list = JsonList(<< >>)]
        ELSE checked

\* create_gatherer_instruction(start_idx, end_idx) as the five agents call it
ShardStart(i) == 3 * i

ShardEnd(i) == 3 * i + 2

\* the indices gatherer i is told to research
Assigned(i) == ShardStart(i)..ShardEnd(i)

\* the companies the list a gatherer reads has
Listed(st) ==
    IF ParsesToList(st.company_list) THEN Len(st.company_list.items) ELSE 0

RECURSIVE Range(_, _)
\* the sequence lo, lo+1, .., hi
Range(lo, hi) == IF lo > hi THEN << >> ELSE <<lo>> \o Range(lo + 1, hi)

\* the text gatherer i answers with
WorkerAnswer(i, st) ==
    IF shardOut[i] = "own"
    THEN JsonList(Range(ShardStart(i),
                        IF ShardEnd(i) < Listed(st) - 1
                        THEN ShardEnd(i) ELSE Listed(st) - 1))
    ELSE IF shardOut[i] = "invalid" THEN NotJson
    ELSE Missing

\* output_key of company_gatherer_i again: once it has been used by
\* an agent that completed before (a misbinding no agent of the code has)
OutputKey_NextFree(i, completed) == Cardinality(completed)

\* mutant: every gatherer bound to the output_key "company_data_0"
OutputKey_Shared(i, completed) == 0

\* output_key of company_gatherer_i: "company_data_<i>", whoever
\* completed before it
OutputKey(i, completed) == i

RECURSIVE Extended_Break(_, _)
\* the loop of combine_company_data again, leaving at the first text that
\* does not decode instead of going on to the next key
Extended_Break(st, n) ==
    IF n = 0 THEN << >>
    ELSE IF \E k \in 0..(n - 2) : RaisesDecodeError(st.shard[k])
    THEN Extended_Break(st, n - 1)
    ELSE IF ParsesToList(st.shard[n - 1])
    THEN Extended_Break(st, n - 1) \o st.shard[n - 1].items
    ELSE Extended_Break(st, n - 1)

RECURSIVE Extended(_, _)
\* all_companies after the loop of combine_company_data has visited the keys
\* company_data_0 .. company_data_<n-1>
Extended(st, n) ==
    IF n = 0 THEN << >>
    ELSE LET data == IF st.shard[n - 1].kind = "missing"
                     THEN JsonList(<< >>) ELSE st.shard[n - 1]
         IN  IF ParsesToList(data)
             THEN Extended(st, n - 1) \o data.items
             ELSE Extended(st, n - 1)

\* combine_company_data
combine_company_data(st) ==
    [st EXCEPT !.company_data = JsonList(Extended(st, Workers))]

\* mutant: parallel_research ends with the first gatherer that completes
ParallelComplete_First(completed) == completed # {}

\* parallel_research, a ParallelAgent, ends when the runs of all its
\* sub_agents have ended; the SequentialAgent then starts data_summarizer
ParallelComplete(completed) == completed = WorkerIds

MarketIdentifier ==
    /\ ppc = "market_identifier"
    /\ \E answer \in MarketOutputs :
          pstate' = validate_market_identifier_output(
                        [pstate EXCEPT !.company_list = answer])
    /\ ppc' = "parallel_research"
    /\ UNCHANGED <<orchVars, fnVars, finished, shardOut>>

Gatherer(i) ==
    /\ ppc = "parallel_research"
    /\ i \notin finished
    /\ LET answer == WorkerAnswer(i, pstate)
       IN  pstate' = IF answer = Missing THEN pstate
                     ELSE [pstate EXCEPT
                              !.shard[OutputKey(i, finished)] = answer]
    /\ finished' = finished \cup {i}
    /\ ppc' = IF ParallelComplete(finished') THEN "data_summarizer" ELSE ppc
    /\ UNCHANGED <<orchVars, fnVars, shardOut>>

\* data_summarizer: its instruction names {company_data_0} .. {company_data_4}
DataSummarizer ==
    /\ ppc = "data_summarizer"
    /\ IF \E i \in WorkerIds : pstate.shard[i] = Missing
       THEN ppc' = "failed" /\ pstate' = pstate
       ELSE /\ \E answer \in {NotJson, JsonList(<< >>)} :
                  pstate' = combine_company_data(
                                [pstate EXCEPT !.company_data = answer])
            /\ ppc' = "a2ui_generator"
    /\ UNCHANGED <<orchVars, fnVars, finished, shardOut>>

\* process_a2ui_output
process_a2ui_output(st) ==
    LET messages == extract_a2ui_messages(st.a2ui_output)
    IN  IF messages # << >>
        THEN [st EXCEPT !.a2ui_messages = messages,
                        !.a2ui_output_parsed = JsonList(messages)]
        ELSE st

A2uiGenerator ==
    /\ ppc = "a2ui_generator"
    /\ \E answer \in GeneratorOutputs :
          pstate' = process_a2ui_output([pstate EXCEPT !.a2ui_output = answer])
    /\ ppc' = "done"
    /\ UNCHANGED <<orchVars, fnVars, finished, shardOut>>

NextProfiler ==
    \/ MarketIdentifier
    \/ \E i \in WorkerIds : Gatherer(i)
    \/ DataSummarizer
    \/ A2uiGenerator

SpecProfiler == InitProfiler /\ [][NextProfiler]_vars


----------------------------------------------------------------------------
(* Properties of the fan-out and the fan-in *)

\* the fan-in step has written company_data
Merged == ppc \in {"a2ui_generator", "done"}

\* C11: for a list of T companies, 1 <= T <= 15, the merged company_data has
\* exactly T entries and the entry at each index describes the company at
\* that index (a failed gatherer's indices holding placeholders).
\* Refuted: a gatherer whose answer does not parse contributes nothing, so
\* the merged list is shorter and the later entries move down.
C11_MergedCoversList ==
    (Merged /\ Listed(pstate) \in 1..ListLimit)
        => /\ Len(pstate.company_data.items) = Listed(pstate)
           /\ \A k \in 1..Listed(pstate) : pstate.company_data.items[k] = k - 1

RECURSIVE ShardConcat(_, _)
\* the concatenation of what gatherers 0 .. n-1 answered, in index order
ShardConcat(st, n) ==
    IF n = 0 THEN << >>
    ELSE ShardConcat(st, n - 1) \o
            (IF ParsesToList(WorkerAnswer(n - 1, st))
             THEN WorkerAnswer(n - 1, st).items ELSE << >>)

\* C12: for fixed per-shard outputs the merged company_data is the
\* concatenation of the shard results in shard order 0, 1, 2, 3, 4, whatever
\* the order in which the gatherers completed.
C12_MergeIgnoresCompletionOrder ==
    Merged => pstate.company_data = JsonList(ShardConcat(pstate, Workers))

\* C12 witness: a full list, every gatherer answered with its own three
\* companies, and they are merged
C12_Witness ==
    /\ Merged
    /\ Listed(pstate) = ListLimit
    /\ \A i \in WorkerIds : shardOut[i] = "own" /\ Len(pstate.shard[i].items) = 3
    /\ pstate.company_data = JsonList(Range(0, ListLimit - 1))

\* C13: for a list of T companies, 1 <= T <= 15, the index ranges given to
\* the five gatherers do not overlap and their union is exactly 0 .. T-1.
\* Refuted: the ranges are written into the five agents and cover 0 .. 14
\* whatever T is.
C13_ShardsPartitionList ==
    (ppc # "market_identifier" /\ Listed(pstate) \in 1..ListLimit)
        => /\ UNION {Assigned(i) : i \in WorkerIds} = 0..(Listed(pstate) - 1)
           /\ \A i, j \in WorkerIds :
                  i # j => Assigned(i) \cap Assigned(j) = {}


----------------------------------------------------------------------------
(* Single functions.  A function of the repository is applied to one input:
   fnPc names the function, fnIn is the input and fnOut the result. *)

\* the longest list a shard holds
MaxShardLen == 1

Entries == {"a", "b"}

\* what company_data_<i> may hold when combine_company_data runs
ShardTexts ==
    {Missing, NotJson, JsonScalar}
        \cup {JsonList(l) : l \in UNION {[1..n -> Entries] : n \in 0..MaxShardLen}}

CombineInputs == [WorkerIds -> ShardTexts]

ApplyCombine ==
    /\ fnPc = "combine_company_data"
    /\ fnOut' = combine_company_data([ProfilerEmpty EXCEPT !.shard = fnIn])
    /\ fnPc' = "combined"
    /\ UNCHANGED <<orchVars, profVars, fnIn>>

\* the entries shard i gives to the merge
Contribution(i) == IF fnIn[i].kind = "list" THEN fnIn[i].items ELSE << >>

RECURSIVE Offset(_)
\* how many entries the shards below i give to the merge
Offset(i) == IF i = 0 THEN 0 ELSE Offset(i - 1) + Len(Contribution(i - 1))

----------------------------------------------------------------------------
(* process_finder_output on one finder output *)

\* the longest finder output
MaxFinderLen == 3

FinderTokens == {ErrorToken, NoPdfPhrase, "word", PlainUrl, TrustedUrl, SecUrl}

\* the values of pdf_url_raw: texts, and a value that is not a str
FinderValues ==
    {NonStringValue} \cup UNION {[1..n -> FinderTokens] : n \in 0..MaxFinderLen}

ApplyFinderCallback ==
    /\ fnPc = "process_finder_output"
    /\ fnOut' = process_finder_output([EmptyState EXCEPT !.pdf_url_raw = fnIn],
                                      [k \in Keys |-> "none"]).st
    /\ fnPc' = "finder output processed"
    /\ UNCHANGED <<orchVars, profVars, fnIn>>

\* the candidate the claim selects: the first with a trusted domain, or the
\* first of all
FirstPreferred(found) ==
    IF \E i \in 1..Len(found) : HasPreferredDomain(found[i])
    THEN found[CHOOSE i \in 1..Len(found) :
                  /\ HasPreferredDomain(found[i])
                  /\ \A j \in 1..(i - 1) : ~HasPreferredDomain(found[j])]
    ELSE found[1]

\* C18: of several candidate PDF URLs process_finder_output selects the
\* first, in extraction order, that has a trusted domain, or the first of
\* all when none has one.
\* Refuted: every later trusted-domain candidate displaces the earlier one.
C18_FirstTrustedCandidateWins ==
    ( /\ fnPc = "finder output processed"
      /\ IsStr(fnIn)
      /\ ~HasErrorMarker(fnIn)
      /\ FoundUrls(fnIn) # << >> )
        => fnOut.pdf_url = FirstPreferred(FoundUrls(fnIn))

\* C31: when the finder output contains the marker 'ERROR:' or the phrase
\* 'no pdf', process_finder_output records an absence: pdf_url is empty and
\* finder_error holds the text, also when the text has a well-formed PDF URL.
C31_ErrorMarkerGivesAbsence ==
    ( /\ fnPc = "finder output processed"
      /\ IsStr(fnIn)
      /\ \E i \in 1..Len(fnIn) : fnIn[i] \in {ErrorToken, NoPdfPhrase} )
        => /\ fnOut.pdf_url = ""
           /\ ~fnOut.url_valid
           /\ fnOut.finder_error = fnIn

\* C31 (witness): a text with a PDF URL followed by the phrase was processed
C31_Witness ==
    /\ fnPc = "finder output processed"
    /\ fnIn = <<TrustedUrl, NoPdfPhrase>>
    /\ fnOut.pdf_url = ""
    /\ fnOut.finder_error = fnIn

----------------------------------------------------------------------------
(* download_pdf_from_url and process_download_output on one download *)

\* what can happen to a download
DownloadConditions ==
    {"invalid url", "timeout", "transport error", "http error", "not a pdf",
     "os error", "pdf"}

\* download_pdf_from_url: every return statement and every except clause
\* returns a dictionary; an OSError's text names the file it was raised for
download_pdf_from_url(condition) ==
    CASE condition = "pdf" ->
            [success |-> TRUE, file_path |-> WinPath, error |-> "", names_file |-> TRUE]
      [] condition = "invalid url" ->
            [success |-> FALSE, file_path |-> "", error |-> "Invalid URL",
             names_file |-> FALSE]
      [] condition = "timeout" ->
            [success |-> FALSE, file_path |-> "",
             error |-> "Download timed out after 90 seconds", names_file |-> FALSE]
      [] condition \in {"transport error", "http error"} ->
            [success |-> FALSE, file_path |-> "", error |-> "Download failed",
             names_file |-> FALSE]
      [] condition = "not a pdf" ->
            [success |-> FALSE, file_path |-> "",
             error |-> "Downloaded file is not a valid PDF", names_file |-> FALSE]
      [] OTHER ->
            [success |-> FALSE, file_path |-> "", error |-> "Unexpected error",
             names_file |-> TRUE]

\* how the downloader LLM writes the tool's result down: as JSON, as prose
\* without a brace group, or as JSON-like text with unescaped backslashes
Renderings == {"json", "prose", "raw backslashes"}

\* the text in download_result for a tool result; file_exists says whether
\* the file the text names is on disk when the callback runs
DownloaderText(result, rendering, file_exists) ==
    IF rendering = "prose" THEN NoDownload
    ELSE IF rendering = "json"
    THEN [has_json |-> TRUE, decodes |-> TRUE, success |-> result.success,
          file_path |-> result.file_path, error |-> result.error,
          named_path |-> ""]
    ELSE [has_json |-> TRUE, decodes |-> FALSE, success |-> FALSE,
          file_path |-> "", error |-> "",
          named_path |-> IF result.names_file /\ file_exists THEN WinPath ELSE ""]

DownloadInputs ==
    [condition : DownloadConditions, rendering : Renderings, file_exists : BOOLEAN]

ApplyDownloadCallback ==
    /\ fnPc = "process_download_output"
    /\ fnOut' = process_download_output(
                    [EmptyState EXCEPT !.download_result =
                        DownloaderText(download_pdf_from_url(fnIn.condition),
                                       fnIn.rendering, fnIn.file_exists)],
                    [k \in Keys |-> "none"]).st
    /\ fnPc' = "download output processed"
    /\ UNCHANGED <<orchVars, profVars, fnIn>>

\* C22: every acquisition failure (invalid URL, timeout, transport error,
\* HTTP error status, content that is no PDF, downloader text that does not
\* parse) ends as the same signal: download_pdf_from_url returns
\* success = false and process_download_output leaves download_success false.
\* Refuted: for text that json.loads rejects the callback takes any path of
\* the text that exists on disk as a successful download.
C22_FailureLeavesNoSuccess ==
    (fnPc = "download output processed" /\ fnIn.condition # "pdf")
        => /\ ~download_pdf_from_url(fnIn.condition).success
           /\ ~fnOut.download_success

----------------------------------------------------------------------------
(* parse_company_list on one parser output *)

\* the longest parser output
MaxParserLen == 4

\* the JSON strings "A" and "", a bare word, and a refusal of the parser LLM
QuotedName == "\"A\""

EmptyString == "\"\""

BareWord == "Acme"

ParserErrorText == "ERROR: no company could be identified"

ParserTokens ==
    {"[", "]", QuotedName, EmptyString, BareWord, " ", ParserErrorText, Fence}

\* a value of parsed_companies that is a list and not a str
ListMarker == "<list>"

PyLists ==
    {<<ListMarker>>, <<ListMarker, BareWord>>, <<ListMarker, "", BareWord>>}

\* the values of parsed_companies: texts, lists, and a value of another type
ParserValues ==
    UNION {[1..n -> ParserTokens] : n \in 0..MaxParserLen}
        \cup PyLists \cup {NonStringValue}

\* user_input, a key the caller of the run may have put into the session
UserInputs == {<< >>, <<" ">>, <<" ", BareWord>>}

\* the session state parse_company_list finds: of a new session, or of a
\* session in which an earlier run has parsed and processed a list
UsedState ==
    [EmptyState EXCEPT !.pipeline_error = "ERROR: No company names provided.",
                       !.company_list = <<<<"Old">>, <<"Older">>>>,
                       !.current_company_index = 2,
                       !.total_companies = 2,
                       !.processed_companies = <<<<"Old">>, <<"Older">>>>]

ParserInputs ==
    [llm_output : ParserValues, user_input : UserInputs, used : BOOLEAN]

RECURSIVE ValueEnd(_, _), ListEnd(_, _)
\* the position where the JSON value that starts at position i ends, or 0
ValueEnd(c, i) ==
    IF i > Len(c) THEN 0
    ELSE IF c[i] \in {QuotedName, EmptyString} THEN i
    ELSE IF c[i] = "[" THEN ListEnd(c, i + 1)
    ELSE 0

\* the position of the "]" that closes the array whose next element, or
\* end, is at position j, or 0
ListEnd(c, j) ==
    IF j > Len(c) THEN 0
    ELSE IF c[j] = "]" THEN j
    ELSE IF ValueEnd(c, j) = 0 THEN 0
    ELSE ListEnd(c, ValueEnd(c, j) + 1)

\* json.loads(llm_output) raises JSONDecodeError
ParserLoadsRaises(text) ==
    LET c == NoSpace(text)
    IN  c = << >> \/ ValueEnd(c, 1) # Len(c)

\* isinstance(parsed, list)
ParsesToArray(text) == ~ParserLoadsRaises(text) /\ NoSpace(text)[1] = "["

RECURSIVE ArrayNames(_, _)
\* [str(c).strip() for c in parsed if c], from the element at position j on
ArrayNames(c, j) ==
    IF c[j] = "]" THEN << >>
    ELSE LET e    == ValueEnd(c, j)
             elem == SubSeq(c, j, e)
             name == IF elem = <<QuotedName>> THEN <<<<"A">>>>
                     ELSE IF elem \in {<<EmptyString>>, <<"[", "]">>} THEN << >>
                     ELSE <<<<"str">> \o elem>>
         IN  name \o ArrayNames(c, e + 1)

\* llm_output after strip() and the two re.sub of the fence
CleanParserOutput(text) ==
    IF Strip(text) # << >> /\ Strip(text)[1] = Fence
    THEN SubClosingFence(SubOpeningFence(Strip(text)))
    ELSE Strip(text)

\* companies before the fallback to user_input
CompaniesOfOutput(llm_output) ==
    IF llm_output = NonStringValue THEN << >>
    ELSE IF llm_output # << >> /\ llm_output[1] = ListMarker
    THEN LET items == SelectSeq(Tail(llm_output), LAMBDA c : c # "")
         IN  [k \in 1..Len(items) |-> <<items[k]>>]
    ELSE LET clean == CleanParserOutput(llm_output)
         IN  IF ParserLoadsRaises(clean)
             THEN (IF clean # << >> THEN <<clean>> ELSE << >>)
             ELSE IF ParsesToArray(clean)
             THEN ArrayNames(NoSpace(clean), 2)
             ELSE << >>

\* companies
Companies(llm_output, user_input) ==
    IF CompaniesOfOutput(llm_output) # << >> THEN CompaniesOfOutput(llm_output)
    ELSE IF Strip(user_input) # << >> THEN <<Strip(user_input)>>
    ELSE << >>

\* the state the callback is called in
ParserPrior(input) ==
    [(IF input.used THEN UsedState ELSE EmptyState)
        EXCEPT !.parsed_companies = input.llm_output]

ApplyParserCallback ==
    /\ fnPc = "parse_company_list"
    /\ fnOut' = parse_company_list(ParserPrior(fnIn), [k \in Keys |-> "none"],
                                   Companies(fnIn.llm_output, fnIn.user_input))
    /\ fnPc' = "company list parsed"
    /\ UNCHANGED <<orchVars, profVars, fnIn>>

\* the parser output is a text that is not JSON and has the error marker
IsErrorText(llm_output) ==
    /\ llm_output # NonStringValue
    /\ Contains(llm_output, ParserErrorText)
    /\ ~Contains(llm_output, ListMarker)
    /\ ParserLoadsRaises(CleanParserOutput(llm_output))

\* C32: when the parser output is a non-JSON text with the marker 'ERROR:',
\* parse_company_list does not take the text for a single work item:
\* company_list is not set to a list holding the error text, and an error
\* note is recorded.
\* Refuted: the except branch makes every non-empty text that is not JSON
\* the one company of the list.
C32_ErrorTextIsNoWorkItem ==
    (fnPc = "company list parsed" /\ IsErrorText(fnIn.llm_output)) =>
        /\ \A k \in 1..Len(fnOut.st.company_list) :
              ~Contains(fnOut.st.company_list[k], ParserErrorText)
        /\ fnOut.org["pipeline_error"] = "cur"

\* the four keys of the work list
WorkListKeys ==
    {"company_list", "current_company_index", "total_companies",
     "processed_companies"}

\* C36: parse_company_list is all-or-nothing: either it writes pipeline_error
\* and leaves the four keys of the work list as they were, or it writes all
\* four (index 0, processed empty, total the length of a non-empty list) and
\* leaves pipeline_error as it was.
C36_ParserAllOrNothing ==
    fnPc = "company list parsed" =>
        LET before == ParserPrior(fnIn)
            after  == fnOut.st
            wrote  == {k \in Keys : fnOut.org[k] = "cur"}
        IN  \/ /\ wrote = {"pipeline_error"}
               /\ \A k \in WorkListKeys : after[k] = before[k]
            \/ /\ wrote = WorkListKeys
               /\ after.pipeline_error = before.pipeline_error
               /\ after.company_list # << >>
               /\ after.total_companies = Len(after.company_list)
               /\ after.current_company_index = 0
               /\ after.processed_companies = << >>

\* C36 (witness): in a session that holds an earlier run's list, a parser
\* output without a company left the four keys and wrote the error
C36_Witness ==
    /\ fnPc = "company list parsed"
    /\ fnIn.used
    /\ fnIn.llm_output = <<"[", EmptyString, "]">>
    /\ fnOut.st.company_list = UsedState.company_list
    /\ fnOut.org["pipeline_error"] = "cur"

----------------------------------------------------------------------------
(* validate_market_identifier_output on one output of the market identifier *)

ApplyMarketValidation ==
    /\ fnPc = "validate_market_identifier_output"
    /\ fnOut' = validate_market_identifier_output(
                    [ProfilerEmpty EXCEPT !.company_list = fnIn])
    /\ fnPc' = "market identifier output validated"
    /\ UNCHANGED <<orchVars, profVars, fnIn>>

\* C37: after validate_market_identifier_output, for every output that is a
\* string, either pipeline_error is set or company_list is a JSON array of 1
\* to 15 entries, the first entries of the identified list in their order.
C37_ErrorOrBoundedPrefix ==
    (fnPc = "market identifier output validated" /\ fnIn.kind # "missing") =>
        \/ fnOut.pipeline_error # ""
        \/ /\ fnIn.kind = "list"
           /\ fnOut.company_list.kind = "list"
           /\ Len(fnOut.company_list.items) \in 1..15
           /\ Len(fnOut.company_list.items) <= Len(fnIn.items)
           /\ \A k \in 1..Len(fnOut.company_list.items) :
                 fnOut.company_list.items[k] = fnIn.items[k]
           /\ Len(fnOut.company_list.items) < Len(fnIn.items) =>
                 Len(fnOut.company_list.items) = 15

\* C37 (witness): a list longer than 15 was cut to its first 15 entries
C37_Witness ==
    /\ fnPc = "market identifier output validated"
    /\ fnIn.kind = "list"
    /\ Len(fnIn.items) > 15
    /\ fnOut.pipeline_error = ""
    /\ Len(fnOut.company_list.items) = 15

----------------------------------------------------------------------------
(* Single functions: the specification *)

InitFunctions ==
    /\ OrchIdle
    /\ ProfIdle
    /\ fnOut = << >>
    /\ \/ fnPc = "combine_company_data" /\ fnIn \in CombineInputs
       \/ fnPc = "extract_a2ui_messages" /\ fnIn \in A2uiTexts
       \/ fnPc = "process_finder_output" /\ fnIn \in FinderValues
       \/ fnPc = "process_download_output" /\ fnIn \in DownloadInputs
       \/ fnPc = "parse_company_list" /\ fnIn \in ParserInputs
       \/ fnPc = "validate_market_identifier_output" /\ fnIn \in MarketOutputs

NextFunctions ==
    \/ ApplyCombine
    \/ ApplyExtract
    \/ ApplyFinderCallback
    \/ ApplyDownloadCallback
    \/ ApplyParserCallback
    \/ ApplyMarketValidation

SpecFunctions == InitFunctions /\ [][NextFunctions]_vars


----------------------------------------------------------------------------
(* format_final_output applied to a summary, and again to what it wrote *)

\* the longest summary text
MaxSummaryLen == 6

SummaryTokens == {Fence, "json", " ", CompactObj, PrettyObj, TrueLiteral}

SummaryInputs == UNION {[1..n -> SummaryTokens] : n \in 0..MaxSummaryLen}

NoOrigins == [k \in Keys |-> "none"]

InitNormalizer ==
    /\ OrchIdle
    /\ ProfIdle
    /\ fnPc = "format_final_output"
    /\ fnIn \in SummaryInputs
    /\ fnOut = << >>

\* the callback on the summary
NormalizeOnce ==
    /\ fnPc = "format_final_output"
    /\ fnOut' = <<format_final_output([EmptyState EXCEPT !.final_summary = fnIn],
                                      NoOrigins).st.structured_output>>
    /\ fnPc' = "formatted"
    /\ UNCHANGED <<orchVars, profVars, fnIn>>

\* the callback on the structured_output it wrote
NormalizeAgain ==
    /\ fnPc = "formatted"
    /\ fnOut' = Append(fnOut,
                    format_final_output([EmptyState EXCEPT !.final_summary = fnOut[1]],
                                        NoOrigins).st.structured_output)
    /\ fnPc' = "formatted again"
    /\ UNCHANGED <<orchVars, profVars, fnIn>>

NextNormalizer ==
    \/ NormalizeOnce
    \/ NormalizeAgain

SpecNormalizer == InitNormalizer /\ [][NextNormalizer]_vars

\* the text is the JSON value body with white space around it
IsPlainJson(text, body) == NoSpace(text) = <<body>>

\* the text is the JSON value body in a code fence: the opening line (three
\* backquotes, perhaps the word json, the line break), the body on the
\* lines after it, and the closing three backquotes
IsFencedJson(text, body) ==
    \/ /\ NoSpace(text) = <<Fence, body, Fence>>
       /\ Strip(text)[2] = " "
    \/ /\ NoSpace(text) = <<Fence, "json", body, Fence>>
       /\ Strip(text)[2] = "json"
       /\ Strip(text)[3] = " "

\* the JSON value of a well-formed summary, however it is spelled
ValueOfBody(body) == IF body = TrueLiteral THEN "true" ELSE "object a=1"

----------------------------------------------------------------------------
(* Further properties of the orchestration *)

\* the outcome the session state holds: download_success, the one key an
\* outcome is written to, which belongs to the company in company_name
HeldOutcome == IF state.download_success THEN "succeeded" ELSE "exhausted"

\* C21: at the end of a run the session state holds for each item whose
\* processing ended a recorded outcome (succeeded or exhausted); the outcome
\* of item i is not lost when item i+1 is processed.
\* Refuted: the outcome lives in keys shared by all items, which the
\* iterator resets when it selects the next item.
C21_OutcomeKeptPerItem ==
    pc = "done" =>
        \A k \in 1..Len(report) :
            /\ report[k].name = state.company_name
            /\ report[k].outcome = HeldOutcome

\* C25: processed_companies never holds a name twice and never holds the
\* empty name, in any reachable state, also when the work list names the
\* same company twice.
C25_ProcessedHasNoDuplicates ==
    /\ \A i, j \in 1..Len(state.processed_companies) :
          i # j => state.processed_companies[i] # state.processed_companies[j]
    /\ ~Contains(state.processed_companies, "")

\* C25 (witness): both items of a list that names one company twice have
\* been tracked, and the name is in processed_companies once
C25_Witness ==
    /\ Len(state.company_list) = 2
    /\ state.company_list[1] = state.company_list[2]
    /\ tracked = 2
    /\ last = "track"
    /\ state.processed_companies = <<state.company_list[1]>>

C27_FailedUrlIsRecorded ==
    (pc = "finder" /\ last = "check_retry") =>
        /\ state.pdf_find_attempt = passes
        /\ state.pdf_url # "" => Contains(state.tried_urls, state.pdf_url)
        /\ \A i, j \in 1..Len(state.tried_urls) :
              i # j => state.tried_urls[i] # state.tried_urls[j]

\* C28: within a pass the stages run in the order finder, validator,
\* downloader, checker (a stage that raises ends the run), and a finder
\* starts only after the iterator or after a checker has completed: the
\* finder of attempt n+1 never starts before the checker of attempt n ended.
C28_StagesStrictlyOrdered ==
    [][/\ pc = "finder"     => pc' \in {"validator", "failed"}
       /\ pc = "validator"  => pc' \in {"downloader", "failed"}
       /\ pc = "downloader" => pc' \in {"checker", "failed"}
       /\ pc' = "finder"    => pc \in {"iterator", "checker"}
       /\ (pc' = "finder" /\ pc = "checker") =>
             /\ last' = "check_retry"
             /\ state'.pdf_find_attempt = state.pdf_find_attempt + 1
             /\ passes' = passes]_vars

\* C28 (witness): the checker of attempt 1 has completed with a retry and
\* the finder of attempt 2 is next
C28_Witness ==
    /\ pc = "finder"
    /\ last = "check_retry"
    /\ passes = 1
    /\ state.pdf_find_attempt = 1

\* the gatherers that are running: parallel_research starts all five
\* together, and each runs until it has completed
Running == IF ppc = "parallel_research" THEN WorkerIds \ finished ELSE {}

\* C29: the merge step (data_summarizer with combine_company_data) does not
\* start while a gatherer is still running: it starts, and company_data is
\* written, only when all five have completed.
C29_MergeWaitsForEveryWorker ==
    /\ ppc = "data_summarizer" => (Running = {} /\ finished = WorkerIds)
    /\ Running # {} => (ppc # "data_summarizer" /\ pstate.company_data = Missing)
    /\ pstate.company_data # Missing => finished = WorkerIds

\* C29 (witness): the merge has run, after all five gatherers completed
C29_Witness ==
    /\ ppc = "a2ui_generator"
    /\ finished = WorkerIds
    /\ pstate.company_data # Missing
    /\ \A i \in WorkerIds : pstate.shard[i] # Missing

\* C30: in the parallel phase a step of gatherer i changes no key but
\* company_data_i: no key is written by two gatherers, and company_list and
\* company_data are written by none.
C30_WorkersWriteOwnSlotOnly ==
    [][ppc = "parallel_research" =>
          /\ \A k \in WorkerIds :
                pstate'.shard[k] # pstate.shard[k] =>
                    (k \notin finished /\ finished' = finished \cup {k})
          /\ pstate'.company_list = pstate.company_list
          /\ pstate'.company_data = pstate.company_data
          /\ pstate'.pipeline_error = pstate.pipeline_error]_vars

\* C30 (witness): all five gatherers have written, each its own key
C30_Witness ==
    /\ ppc = "data_summarizer"
    /\ \A i \in WorkerIds : shardOut[i] = "own" /\ pstate.shard[i] # Missing
    /\ \A i, j \in WorkerIds : i # j => pstate.shard[i] # pstate.shard[j]

\* C33: when validate_market_identifier_output has recorded pipeline_error,
\* the pipeline does not go on to the fan-out: no gatherer is run.
\* Refuted: company_profiler is a SequentialAgent and no agent reads
\* pipeline_error, so parallel_research runs after every market_identifier.
C33_ErrorStopsBeforeFanOut ==
    pstate.pipeline_error # "" => (finished = {} /\ ppc # "data_summarizer")

\* C34: in every reachable state download_success implies a non-empty
\* pdf_file_path, and when the download checker runs download_success is
\* true only if the downloader output of this pass reported success with a
\* file path.
\* Refuted in its second part: an output that json.loads rejects sets
\* download_success when it names a .pdf path that exists, whatever it
\* reports.
C34_SuccessIsReportedThisPass ==
    /\ state.download_success => state.pdf_file_path # ""
    /\ (pc = "checker" /\ state.download_success) =>
          /\ origin["download_result"] = "cur"
          /\ state.download_result.success
          /\ state.download_result.file_path # ""

\* the first part of C34 alone, which holds
SuccessHasFilePath == state.download_success => state.pdf_file_path # ""

RECURSIVE FirstOccurrences(_)
\* the names of the list in the order of their first occurrence
FirstOccurrences(names) ==
    IF names = << >> THEN << >>
    ELSE LET front == FirstOccurrences(SubSeq(names, 1, Len(names) - 1))
         IN  IF Contains(front, names[Len(names)]) THEN front
             ELSE Append(front, names[Len(names)])

\* company_list[0 .. current_company_index)
HandledItems ==
    SubSeq(state.company_list, 1,
           IF state.current_company_index < Len(state.company_list)
           THEN state.current_company_index ELSE Len(state.company_list))

\* C35: once the work list is parsed, total_companies is the length of
\* company_list, current_company_index is the number of completed tracking
\* steps, processed_companies is the names of company_list[0 .. index) in
\* the order of first occurrence, without repeats; and an item the iterator
\* selects is within the list.
C35_IndexAndProcessedAgree ==
    Present("company_list") =>
        /\ state.total_companies = Len(state.company_list)
        /\ state.current_company_index = tracked
        /\ state.processed_companies = FirstOccurrences(HandledItems)
        /\ last = "select" =>
              /\ state.current_company_index < Len(state.company_list)
              /\ state.company_name =
                    state.company_list[state.current_company_index + 1]

\* C35 (witness): both items of a list of two companies have been tracked
C35_Witness ==
    /\ Present("company_list")
    /\ Len(state.company_list) = 2
    /\ state.company_list[1] # state.company_list[2]
    /\ state.current_company_index = 2
    /\ tracked = 2
    /\ state.processed_companies = state.company_list

(***************************************************************************)
(* The A2A server of the company profiler: handle_message                  *)
(***************************************************************************)

\* the most parts of an inbound message
MaxParts == 2

\* the most delimited segments of a final answer
MaxSegments == 2

TextPart(text) == [kind |-> "text", text |-> text, data |-> << >>]

\* data is given by the keys of the payload
DataPart(data) == [kind |-> "data", text |-> << >>, data |-> data]

\* a text part, a text part with an empty text, a client event, other data
RequestParts ==
    {TextPart(<<"hello">>), TextPart(<< >>),
     DataPart(<<"userAction">>), DataPart(<<"other">>)}

NoId == "no id"

\* body, params.message.parts and the X-A2A-Extensions header
Requests ==
    [parts          : UNION {[1..k -> RequestParts] : k \in 0..MaxParts},
     a2ui_requested : BOOLEAN,
     id             : {"req-1", NoId}]

\* json.dumps(data)
DumpsData(data) == <<"{">> \o data \o <<"}">>

RECURSIVE Query_AnyData(_)
\* mutant: every data part is serialized, with or without a userAction key
Query_AnyData(parts) ==
    IF parts = << >> THEN << >>
    ELSE LET part == Head(parts)
         IN  IF part.kind = "text" THEN part.text
             ELSE IF part.kind = "data" THEN DumpsData(part.data)
             ELSE Query_AnyData(Tail(parts))

RECURSIVE Query(_)
\* the loop over the parts: the first part that is a text part or a data
\* part with a userAction key ends it
Query(parts) ==
    IF parts = << >> THEN << >>
    ELSE LET part == Head(parts)
         IN  IF part.kind = "text" THEN part.text
             ELSE IF part.kind = "data" /\ Contains(part.data, "userAction")
                  THEN DumpsData(part.data)
                  ELSE Query(Tail(parts))

\* body.get("id", str(uuid.uuid4()))
RequestId(req) == IF req.id = NoId THEN "uuid-request" ELSE req.id

NoContext == "no context"

ErrorResponse(id, code) ==
    [id |-> id, kind |-> "error", code |-> code,
     contextId |-> NoContext, parts |-> << >>]

TaskResponse(id, parts) ==
    [id |-> id, kind |-> "task", code |-> 0,
     contextId |-> "uuid-context", parts |-> parts]

\* what comes before the first delimiter of a final answer
LeadingTexts == {<< >>, <<" ">>, <<" ", "x", " ">>, <<"{", "}">>}

\* what stands between two delimiters
SegmentTexts ==
    {<<" ", "{", "}">>, <<"{", "kv", "}", " ">>, <<"x">>, << >>, <<"{", "kv">>}

RECURSIVE Delimited(_)
\* the segments, each after a delimiter
Delimited(segments) ==
    IF segments = << >> THEN << >>
    ELSE <<Delim>> \o Head(segments) \o Delimited(Tail(segments))

\* the joined texts of a final response of the generator
FinalTexts ==
    {lead \o Delimited(segments) :
        lead \in LeadingTexts,
        segments \in UNION {[1..k -> SegmentTexts] : k \in 0..MaxSegments}}

\* the joined texts of a final response of an agent before the generator
IntermediateTexts == {<<"x">>, <<Delim, "{", "}">>}

\* the most final responses of a run in an arbitrary sequence of events
MaxEvents == 2

\* the joined texts of a final response in such a sequence: no text, two
\* plain texts and a text with the delimiter
EventTexts == {<< >>, <<"x">>, <<"y">>, <<Delim, "{", "}">>}

\* sequences of final responses of any author and text
EventSequences ==
    UNION {[1..n -> [author : {"data_summarizer", "a2ui_generator"},
                     text   : EventTexts]] : n \in 0..MaxEvents}

\* the final responses that runner.run_async yields, with content, in order
EventStreams ==
    EventSequences \cup
    {early \o closing :
        early \in {<< >>} \cup
            {<<[author |-> "data_summarizer", text |-> t]>> :
                t \in IntermediateTexts},
        closing \in {<< >>} \cup
            {<<[author |-> "a2ui_generator", text |-> t]>> : t \in FinalTexts}}

RECURSIVE Captured(_, _)
\* final_response_content after the loop over the events
Captured(events, held) ==
    IF events = << >> THEN held
    ELSE LET event == Head(events)
         IN  IF Contains(event.text, Delim) \/ event.author = "a2ui_generator"
             THEN event.text
             ELSE IF held = << >> THEN Captured(Tail(events), event.text)
                  ELSE Captured(Tail(events), held)

Apology == <<"I'm sorry, I encountered an error processing your request.">>

\* response_parts when every caller is given the envelope sequence
ResponseParts_AnyCaller(content, a2ui_requested) ==
    IF content = << >> THEN <<TextPart(Apology)>>
    ELSE IF Contains(content, Delim)
    THEN LET pieces    == Split(content)
             text_part == Head(pieces)
             json_part == Delimited(Tail(pieces))
             messages  == server_extract_a2ui_messages(json_part)
         IN  (IF Strip(text_part) # << >>
              THEN <<TextPart(Strip(text_part))>> ELSE << >>)
             \o [k \in 1..Len(messages) |-> DataPart(messages[k])]
    ELSE <<TextPart(content)>>

\* response_parts
ResponseParts(content, a2ui_requested) ==
    IF content = << >> THEN <<TextPart(Apology)>>
    ELSE IF Contains(content, Delim) /\ a2ui_requested
    THEN LET first     == CHOOSE i \in 1..Len(content) :
                              /\ content[i] = Delim
                              /\ \A j \in 1..(i - 1) : content[j] # Delim
             text_part == SubSeq(content, 1, first - 1)
             json_part == SubSeq(content, first + 1, Len(content))
             messages  == server_extract_a2ui_messages(<<Delim>> \o json_part)
         IN  (IF Strip(text_part) # << >>
              THEN <<TextPart(Strip(text_part))>> ELSE << >>)
             \o [k \in 1..Len(messages) |-> DataPart(messages[k])]
    ELSE <<TextPart(content)>>

NoResponse == ErrorResponse(NoId, 0)

InitServer ==
    /\ OrchIdle
    /\ ProfIdle
    /\ fnPc = "handle_message"
    /\ fnIn \in Requests
    /\ fnOut = [query |-> << >>, session |-> "none", run |-> "not run",
                events |-> << >>, content |-> << >>, response |-> NoResponse]

\* lines 142-163: the query, or the answer that there is none
ExtractQuery ==
    /\ fnPc = "handle_message"
    /\ LET query == Query(fnIn.parts)
       IN  IF query = << >>
           THEN /\ fnOut' = [fnOut EXCEPT
                      !.response = ErrorResponse(RequestId(fnIn), -32600)]
                /\ fnPc' = "responded"
           ELSE /\ fnOut' = [fnOut EXCEPT !.query = query]
                /\ fnPc' = "run_agent"
    /\ UNCHANGED <<orchVars, profVars, fnIn>>

\* lines 167-227: the run of the pipeline, which raises or ends
RunAgent ==
    /\ fnPc = "run_agent"
    /\ \/ /\ fnOut' = [fnOut EXCEPT
                !.session = "created",
                !.run = "raised",
                !.response = ErrorResponse(RequestId(fnIn), -32603)]
          /\ fnPc' = "responded"
       \/ \E events \in EventStreams :
             /\ fnOut' = [fnOut EXCEPT !.session = "created",
                                       !.run = "ended",
                                       !.events = events,
                                       !.content = Captured(events, << >>)]
             /\ fnPc' = "build_response"
    /\ UNCHANGED <<orchVars, profVars, fnIn>>

\* lines 229-287
BuildResponse ==
    /\ fnPc = "build_response"
    /\ fnOut' = [fnOut EXCEPT
          !.response = TaskResponse(RequestId(fnIn),
                          ResponseParts(fnOut.content, fnIn.a2ui_requested))]
    /\ fnPc' = "responded"
    /\ UNCHANGED <<orchVars, profVars, fnIn>>

NextServer ==
    \/ ExtractQuery
    \/ RunAgent
    \/ BuildResponse

SpecServer == InitServer /\ [][NextServer]_vars

\* the text parts of the message, in order
TextParts(parts) == SelectSeq(parts, LAMBDA part : part.kind = "text")

\* C23: the query is the text of the first text part whenever the message
\* has a text part, whatever parts precede it; only a message without a text
\* part gives the serialized userAction payload of a data part (or nothing).
C23_TextPartTakesPrecedence ==
    fnPc # "handle_message" =>
        IF TextParts(fnIn.parts) # << >>
        THEN fnOut.query = TextParts(fnIn.parts)[1].text
        ELSE \/ fnOut.query = << >>
             \/ \E k \in 1..Len(fnIn.parts) :
                   /\ fnIn.parts[k].kind = "data"
                   /\ Contains(fnIn.parts[k].data, "userAction")
                   /\ fnOut.query = DumpsData(fnIn.parts[k].data)

\* the caller declared the extension and the final content has the delimiter
Enveloped == fnIn.a2ui_requested /\ Contains(fnOut.content, Delim)

\* C24: a response to a run that ended with final content carries the id of
\* the request and a context id; when the caller declared the extension and
\* the content has the delimiter, its parts are the stripped text before the
\* first delimiter (if there is any) followed by one data part per message
\* decoded from the segments after it, in their order; in every other case
\* it is one text part holding the whole content.
C24_EnvelopeOnlyForDeclaredCallers ==
    (fnPc = "responded" /\ fnOut.response.kind = "task"
                        /\ fnOut.content # << >>) =>
        LET response == fnOut.response
            parts    == response.parts
            pieces   == Split(fnOut.content)
            lead     == Strip(Head(pieces))
            messages == CollectedServer(Tail(pieces), Len(pieces) - 1)
            data     == SelectSeq(parts, LAMBDA part : part.kind = "data")
        IN  /\ fnIn.id # NoId => response.id = fnIn.id
            /\ response.contextId # NoContext
            /\ Enveloped =>
                  /\ Len(parts) = Len(data) + (IF lead = << >> THEN 0 ELSE 1)
                  /\ lead # << >> => parts[1] = TextPart(lead)
                  /\ Len(data) = Len(messages)
                  /\ \A k \in 1..Len(data) : data[k] = DataPart(messages[k])
            /\ ~Enveloped => parts = <<TextPart(fnOut.content)>>

\* C24 (witness): a declared caller was answered with a leading text and two
\* different messages, in the order of the stream
C24_Witness ==
    /\ fnPc = "responded"
    /\ fnOut.response.kind = "task"
    /\ Enveloped
    /\ Len(fnOut.response.parts) = 3
    /\ fnOut.response.parts[1].kind = "text"
    /\ fnOut.response.parts[2].kind = "data"
    /\ fnOut.response.parts[3].kind = "data"
    /\ fnOut.response.parts[2] # fnOut.response.parts[3]

\* the final responses, by position, that end the consumption of events
Decisive ==
    {i \in 1..Len(fnOut.events) :
        \/ Contains(fnOut.events[i].text, Delim)
        \/ fnOut.events[i].author = "a2ui_generator"}

\* the final responses, by position, that have text
WithText == {i \in 1..Len(fnOut.events) : fnOut.events[i].text # << >>}

\* the least position of a non-empty set of positions
First(positions) == CHOOSE i \in positions : \A j \in positions : i <= j

\* the response returns the text as its content: as one text part, or, for
\* a declared caller and a text with the delimiter, as its envelope sequence
Returns(text) ==
    /\ fnOut.content = text
    /\ ~(fnIn.a2ui_requested /\ Contains(text, Delim)) =>
          fnOut.response.parts = <<TextPart(text)>>

\* C39: the content the handler returns is that of the first final response
\* that has the delimiter or is authored by a2ui_generator; without such an
\* event it is that of the first final response with text; without any, the
\* fixed apology text is returned.
\* Refuted: a final response of a2ui_generator without text ends the
\* consumption, replaces a text held from an earlier response, and the
\* apology is returned.
C39_FirstDecisiveEventIsReturned ==
    (fnPc = "responded" /\ fnOut.response.kind = "task") =>
        IF Decisive # {} THEN Returns(fnOut.events[First(Decisive)].text)
        ELSE IF WithText # {} THEN Returns(fnOut.events[First(WithText)].text)
        ELSE fnOut.response.parts = <<TextPart(Apology)>>

\* the claim of C39 for the runs in which the deciding response has text
DecisiveWithTextIsReturned ==
    (fnPc = "responded" /\ fnOut.response.kind = "task") =>
        IF Decisive # {}
        THEN fnOut.events[First(Decisive)].text # << >> =>
                Returns(fnOut.events[First(Decisive)].text)
        ELSE IF WithText # {} THEN Returns(fnOut.events[First(WithText)].text)
        ELSE fnOut.response.parts = <<TextPart(Apology)>>

\* the parts, by position, that can give a query: text parts and data parts
\* with a userAction key
QueryParts ==
    {i \in 1..Len(fnIn.parts) :
        \/ fnIn.parts[i].kind = "text"
        \/ Contains(fnIn.parts[i].data, "userAction")}

\* no query can be extracted: no such part, or the first is an empty text
NoQuery ==
    \/ QueryParts = {}
    \/ fnIn.parts[First(QueryParts)] = TextPart(<< >>)

\* C40: when no query can be extracted the handler answers with the error
\* -32600 and the request's id, and neither creates a session nor runs the
\* pipeline; when the run raises, it answers with the error -32603 and the
\* request's id.
C40_ErrorsAreAnswered ==
    /\ (fnPc # "handle_message" /\ NoQuery) =>
          /\ fnPc = "responded"
          /\ fnOut.response.kind = "error"
          /\ fnOut.response.code = -32600
          /\ fnIn.id # NoId => fnOut.response.id = fnIn.id
          /\ fnOut.session = "none"
          /\ fnOut.run = "not run"
    /\ fnOut.run = "raised" =>
          /\ fnPc = "responded"
          /\ fnOut.response.kind = "error"
          /\ fnOut.response.code = -32603
          /\ fnIn.id # NoId => fnOut.response.id = fnIn.id
    /\ (fnPc = "responded" /\ fnOut.response.kind = "error") =>
          (NoQuery \/ fnOut.run = "raised")

\* C40 (witness): a request with an id whose only part is a data part
\* without userAction has been answered with the error -32600
C40_Witness ==
    /\ fnPc = "responded"
    /\ fnIn.id = "req-1"
    /\ fnIn.parts = <<DataPart(<<"other">>)>>
    /\ fnOut.response = ErrorResponse("req-1", -32600)
    /\ fnOut.run = "not run"

====
